---- MODULE Spec2Model ----
(***************************************************************************)
(* Gomoku engine of ZHOB/assignment3: the padded one-dimensional board     *)
(* (src/board.py) and the flat Monte Carlo move selector (src/gomoku3.py). *)
(*                                                                         *)
(* A GoBoard object is a record whose field `board` is a reference into    *)
(* the store `arrays` of numpy arrays, so that copying and aliasing are    *)
(* what the code makes them.  The methods of GoBoard are operators over    *)
(* the dereferenced object (the record with the array itself in `board`).  *)
(***************************************************************************)
EXTENDS Integers, Sequences, FiniteSets, TLC

VARIABLES
    arrays,        \* the numpy arrays that exist: reference -> array
    board,         \* the GoBoard handed to the engine (field board: a reference)
    temp,          \* gomoku3.simulation: the local GoBoard `temp`
    call,          \* the last call made on `board` through its interface, with its result
    pc,            \* gomoku3.simulation: where the call stands
    policy,        \* gomoku3.simulation: argument policy
    color,         \* gomoku3.simulation: argument color
    legal_moves,   \* gomoku3.simulation: local legal_moves
    score,         \* gomoku3.simulation: local score
    i,             \* gomoku3.simulation: candidate loop index (1-based here)
    j,             \* gomoku3.simulation: trials of candidate i already run
    win,           \* gomoku3.simulation: result of the last finished trial
    best,          \* gomoku3.simulation: the returned move
    depth,         \* recursion depth of the running sim_for_one / sim_for_one_rule
    empty0,        \* number of EMPTY points of temp when the running trial started
    raised         \* the exception that ended the call, "" when none

vars == <<arrays, board, temp, call, pc, policy, color, legal_moves, score,
          i, j, win, best, depth, empty0, raised>>

simvars == <<temp, pc, policy, color, legal_moves, score, i, j, win, best,
             depth, empty0, raised>>

-----------------------------------------------------------------------------
(* board_util: the colour constants and sentinels board.py imports.        *)

EMPTY == 0
BLACK == 1
WHITE == 2
BORDER == 3
MAXSIZE == 25

\* PASS is None in board_util; here an integer that is no index of any board,
\* negative indices included.
PASS == 0 - (MAXSIZE * MAXSIZE + 3 * (MAXSIZE + 1)) - 1
None == PASS

is_black_white(c) == c = BLACK \/ c = WHITE

opponent(c) == WHITE + BLACK - c

\* The board size the engine is run with.
Size == 7

\* The number of trials per candidate.
NN == 10

-----------------------------------------------------------------------------
(* GoBoard.reset: the geometry of a board of a given size.                 *)

NSof(size) == size + 1
maxpointOf(size) == size * size + 3 * (size + 1)
row_startOf(size, row) == row * NSof(size) + 1

NS == NSof(Size)
maxpoint == maxpointOf(Size)
row_start(row) == row_startOf(Size, row)
pt(row, col) == NS * row + col

Points == 0 .. (maxpoint - 1)

\* _initialize_empty_points on np.full(maxpoint, BORDER)
_initialize_empty_points(size) ==
    [p \in 0 .. (maxpointOf(size) - 1) |->
        IF \E row \in 1 .. size :
              /\ p >= row_startOf(size, row)
              /\ p < row_startOf(size, row) + size
        THEN EMPTY ELSE BORDER]

EmptyGrid == _initialize_empty_points(Size)

\* numpy indexing: a negative index counts from the end, anything else outside
\* the array raises IndexError.
OutOfRange(idx) == idx >= maxpoint \/ idx < 0 - maxpoint
At(g, idx) == g[IF idx < 0 THEN idx + maxpoint ELSE idx]

get_color(g, point) == At(g, point)

\* where1d(cond): the indices that satisfy cond, ascending.
where1d(g, c) ==
    SelectSeq([k \in 1 .. maxpoint |-> k - 1], LAMBDA p : g[p] = c)

get_empty_points(g) == where1d(g, EMPTY)

Range(s) == {s[k] : k \in 1 .. Len(s)}

-----------------------------------------------------------------------------
(* GoBoard.calculate_rows_cols_diags                                       *)

RECURSIVE WalkWhileEmpty(_, _, _)
\* while self.get_color(pt) == EMPTY: diag.append(pt); pt += step
WalkWhileEmpty(g, p, step) ==
    IF g[p] = EMPTY
    THEN <<p>> \o WalkWhileEmpty(g, p + step, step)
    ELSE <<>>

calculate_rows(size) ==
    [r \in 1 .. size |-> [k \in 1 .. size |-> row_startOf(size, r) + k - 1]]

calculate_cols(size) ==
    [c \in 1 .. size |->
        [k \in 1 .. size |-> row_startOf(size, 1) + c - 1 + (k - 1) * NSof(size)]]

\* a keep of the diagonals from four points on
KeepLong_from_four(ds) == SelectSeq(ds, LAMBDA d : Len(d) >= 4)

KeepLong(ds) == SelectSeq(ds, LAMBDA d : Len(d) >= 5)

RECURSIVE FlattenPairs(_)
FlattenPairs(ps) ==
    IF ps = <<>> THEN <<>> ELSE Head(ps) \o FlattenPairs(Tail(ps))

calculate_diags(size) ==
    LET g == _initialize_empty_points(size)
        ns == NSof(size)
        start == row_startOf(size, 1)
        \* diag towards SE, starting from first row (1,1) moving right to (1,n)
        first == [k \in 1 .. size |-> WalkWhileEmpty(g, start + k - 1, ns + 1)]
        \* diag towards SE and NE, starting from (2,1) downwards to (n,1)
        second == FlattenPairs(
                    [k \in 1 .. (size - 1) |->
                        << WalkWhileEmpty(g, start + k * ns, ns + 1),
                           WalkWhileEmpty(g, start + k * ns, 1 - ns) >>])
        \* diag towards NE, starting from (n,2) moving right to (n,n)
        last == [k \in 1 .. size |->
                    WalkWhileEmpty(g, row_startOf(size, size) + 1 + k - 1, 1 - ns)]
    IN KeepLong(first) \o KeepLong(second) \o KeepLong(last)

rows == calculate_rows(Size)
cols == calculate_cols(Size)
diags == calculate_diags(Size)

-----------------------------------------------------------------------------
(* GoBoard.has_five_in_list / detect_five_in_a_row                         *)

RECURSIVE five_scan(_, _, _, _, _)
\* the loop of has_five_in_list from position k with the locals prev, counter
five_scan(g, list, k, prev, counter) ==
    IF k > Len(list) THEN EMPTY
    ELSE LET c == get_color(g, list[k])
             counter2 == IF c = prev THEN counter + 1 ELSE 1
         IN IF counter2 = 5 /\ c # EMPTY
            THEN c
            ELSE five_scan(g, list, k + 1, c, counter2)

has_five_in_list(g, list) == five_scan(g, list, 1, BORDER, 1)

RECURSIVE first_five(_, _, _)
\* the first result different from EMPTY over the lists from position k on
first_five(g, lists, k) ==
    IF k > Len(lists) THEN EMPTY
    ELSE LET result == has_five_in_list(g, lists[k])
         IN IF result # EMPTY THEN result ELSE first_five(g, lists, k + 1)

\* a scan that looks at the columns before the rows
detect_cols_first(g) ==
    LET c == first_five(g, cols, 1)
    IN IF c # EMPTY THEN c
       ELSE LET r == first_five(g, rows, 1)
            IN IF r # EMPTY THEN r
               ELSE first_five(g, diags, 1)

detect_five_in_a_row(g) ==
    LET r == first_five(g, rows, 1)
    IN IF r # EMPTY THEN r
       ELSE LET c == first_five(g, cols, 1)
            IN IF c # EMPTY THEN c
               ELSE first_five(g, diags, 1)

-----------------------------------------------------------------------------
(* The directional probes checkrow, checkcol, checkd1, checkd2 and their   *)
(* extended variants.  The four differ in the stride only.                 *)

RECURSIVE count_same(_, _, _, _)
\* one `while True` loop of a probe: the cells of colour c met from
\* start + step on, before the first other cell
count_same(g, start, step, c) ==
    IF At(g, start + step) = c
    THEN 1 + count_same(g, start + step, step, c)
    ELSE 0

probe(g, start, step, c) ==
    LET n1 == count_same(g, start, step, c)
        n2 == count_same(g, start, 0 - step, c)
        t1 == start + (n1 + 1) * step
        t2 == start - (n2 + 1) * step
    IN [samecolor |-> 1 + n1 + n2,
        space |-> (IF At(g, t1) = EMPTY THEN 1 ELSE 0)
                  + (IF At(g, t2) = EMPTY THEN 1 ELSE 0)]

checkrow(g, start, c) == probe(g, start, 1, c)
checkcol(g, start, c) == probe(g, start, NS, c)
checkd1(g, start, c) == probe(g, start, NS + 1, c)
checkd2(g, start, c) == probe(g, start, NS - 1, c)

RECURSIVE dflag(_, _)
\* the second loop's update of d, once per stone met: d = 0 if d == 1 else -1
dflag(d, n) == IF n = 0 THEN d ELSE dflag(IF d = 1 THEN 0 ELSE 0 - 1, n - 1)

probe2(g, start, step, c) ==
    LET n1 == count_same(g, start, step, c)
        n2 == count_same(g, start, 0 - step, c)
        t1 == start + (n1 + 1) * step
        t2 == start - (n2 + 1) * step
    IN [samecolor |-> 1 + n1 + n2,
        space |-> (IF At(g, t1) = EMPTY THEN 1 ELSE 0)
                  + (IF At(g, t2) = EMPTY THEN 1 ELSE 0),
        d |-> dflag(IF n1 > 0 THEN 1 ELSE 0, n2),
        s1 |-> IF At(g, t1) = EMPTY THEN t1 ELSE 0 - 1,
        s2 |-> IF At(g, t2) = EMPTY THEN t2 ELSE 0 - 1]

checkrow2(g, start, c) == probe2(g, start, 1, c)
checkcol2(g, start, c) == probe2(g, start, NS, c)
checkd12(g, start, c) == probe2(g, start, NS + 1, c)
checkd22(g, start, c) == probe2(g, start, NS - 1, c)

-----------------------------------------------------------------------------
(* Win, BlockWin, OpenFour, BlockOpenFour.  self is a dereferenced GoBoard. *)

\* a test that leaves out the second diagonal
five_through_no_d2(g, p, c) ==
    \/ checkrow(g, p, c).samecolor >= 5
    \/ checkcol(g, p, c).samecolor >= 5
    \/ checkd1(g, p, c).samecolor >= 5

\* rowc >= 5 or colc >= 5 or d1c >= 5 or d2c >= 5
five_through(g, p, c) ==
    \/ checkrow(g, p, c).samecolor >= 5
    \/ checkcol(g, p, c).samecolor >= 5
    \/ checkd1(g, p, c).samecolor >= 5
    \/ checkd2(g, p, c).samecolor >= 5

Win(self) ==
    SelectSeq(where1d(self.board, EMPTY),
              LAMBDA p : five_through(self.board, p, self.current_player))

BlockWin(self) ==
    SelectSeq(where1d(self.board, EMPTY),
              LAMBDA p : five_through(self.board, p,
                                      WHITE + BLACK - self.current_player))

\* a test that is content with one open end
open_four_one_end(pr) == pr.samecolor = 4 /\ pr.space >= 1

\* the test `c == 4 and s == 2` on one axis
open_four(pr) == pr.samecolor = 4 /\ pr.space = 2

OpenFour(self) ==
    SelectSeq(where1d(self.board, EMPTY),
              LAMBDA p :
                LET c == self.current_player
                    g == self.board
                IN \/ open_four(checkrow(g, p, c))
                   \/ open_four(checkcol(g, p, c))
                   \/ open_four(checkd1(g, p, c))
                   \/ open_four(checkd2(g, p, c)))

\* The cells that sub-case (a) of BlockOpenFour reads for point p, as
\* <<index>> or <<>>: Python reads self.board[...] only when the tests
\* before it hold.
one_sided(pr) == pr.samecolor = 4 /\ pr.space = 1

a_read(p, pr, step) ==
    IF one_sided(pr) /\ pr.d = 1 THEN <<p + 5 * step>>
    ELSE IF one_sided(pr) /\ pr.d = 0 - 1 THEN <<p - 5 * step>>
    ELSE <<>>

\* lines 642-648: the row axis appends i+5 in both senses
a_row(g, p, pr) ==
    IF a_read(p, pr, 1) # <<>> /\ At(g, a_read(p, pr, 1)[1]) = 0
    THEN <<p + 5, p>>
    ELSE <<>>

\* lines 649-675: the column and diagonal axes append the cell they read
a_axis(g, p, pr, step) ==
    IF a_read(p, pr, step) # <<>> /\ At(g, a_read(p, pr, step)[1]) = 0
    THEN <<a_read(p, pr, step)[1], p>>
    ELSE <<>>

\* lines 677-684
b_axis(p, pr) == IF open_four(pr) THEN <<p>> ELSE <<>>

\* lines 686-697
c_axis(pr) == IF open_four(pr) /\ pr.d = 0 THEN <<pr.s1, pr.s2>> ELSE <<>>

\* what one pass of the loop body appends to move_list for point p
block_appends(g, p, c) ==
    LET r == checkrow2(g, p, c)
        k == checkcol2(g, p, c)
        d1 == checkd12(g, p, c)
        d2 == checkd22(g, p, c)
    IN a_row(g, p, r) \o a_axis(g, p, k, NS)
       \o a_axis(g, p, d1, NS + 1) \o a_axis(g, p, d2, NS - 1)
       \o b_axis(p, r) \o b_axis(p, k) \o b_axis(p, d1) \o b_axis(p, d2)
       \o c_axis(r) \o c_axis(k) \o c_axis(d1) \o c_axis(d2)

\* the indices one pass of the loop body reads in sub-case (a)
block_reads(g, p, c) ==
    a_read(p, checkrow2(g, p, c), 1) \o a_read(p, checkcol2(g, p, c), NS)
    \o a_read(p, checkd12(g, p, c), NS + 1) \o a_read(p, checkd22(g, p, c), NS - 1)

\* BlockOpenFour: IndexError when some pass reads outside the array,
\* otherwise the set of the appended points (list(set(move_list)))
BlockOpenFour(self) ==
    LET c == WHITE + BLACK - self.current_player
        g == self.board
        moves == Range(where1d(g, EMPTY))
    IN IF \E p \in moves : \E idx \in Range(block_reads(g, p, c)) : OutOfRange(idx)
       THEN [raised |-> "IndexError", moves |-> {}]
       ELSE [raised |-> "",
             moves |-> UNION {Range(block_appends(g, p, c)) : p \in moves}]

-----------------------------------------------------------------------------
(* GoBoard.play_move, GoBoard.copy and the store of arrays                 *)

SetAt(g, idx, c) == [g EXCEPT ![IF idx < 0 THEN idx + maxpoint ELSE idx] = c]

\* a play_move that writes the stone without looking at the cell
play_move_unchecked(self, point, c) ==
    [ret |-> TRUE,
     self |-> [board |-> IF point = PASS THEN self.board
                         ELSE SetAt(self.board, point, c),
               current_player |-> opponent(c),
               last_move |-> point,
               last2_move |-> self.last_move]]

\* a play_move whose pass hands the turn to the colour that passed
play_move_pass_keeps_turn(self, point, c) ==
    IF point = PASS
    THEN [ret |-> TRUE,
          self |-> [self EXCEPT !.current_player = c,
                                !.last2_move = self.last_move,
                                !.last_move = point]]
    ELSE IF At(self.board, point) # EMPTY
    THEN [ret |-> FALSE, self |-> self]
    ELSE [ret |-> TRUE,
          self |-> [board |-> SetAt(self.board, point, c),
                    current_player |-> opponent(c),
                    last_move |-> point,
                    last2_move |-> self.last_move]]

\* play_move on a dereferenced GoBoard: the value returned and the object after
\* the call.  (ko_recapture is None throughout and is left out.)
play_move(self, point, c) ==
    IF point = PASS
    THEN [ret |-> TRUE,
          self |-> [self EXCEPT !.current_player = opponent(c),
                                !.last2_move = self.last_move,
                                !.last_move = point]]
    ELSE IF At(self.board, point) # EMPTY
    THEN [ret |-> FALSE, self |-> self]
    ELSE [ret |-> TRUE,
          self |-> [board |-> SetAt(self.board, point, c),
                    current_player |-> opponent(c),
                    last_move |-> point,
                    last2_move |-> self.last_move]]

ArrayRefs == {1, 2}
NoRef == 0

\* no GoBoard: the value of `temp` outside its scope
NoBoard == [board |-> NoRef, current_player |-> BLACK,
            last_move |-> None, last2_move |-> None]

\* the object with its array in place of the reference
Deref(A, obj) == [obj EXCEPT !.board = A[obj.board]]

\* the store after a method left the dereferenced object as `self`
StoreArrays(A, obj, self) == [A EXCEPT ![obj.board] = self.board]
StoreObj(obj, self) == [self EXCEPT !.board = obj.board]

\* a copy that shares the array: b.board = self.board
copy_shared(A, obj, keep) == [arrays |-> A, obj |-> obj]

\* copy: a new GoBoard with the scalar fields and np.copy of the array; the
\* arrays that only `keep` references stay, the others are garbage
copy(A, obj, keep) ==
    LET r == CHOOSE x \in ArrayRefs : x \notin keep
    IN [arrays |-> [x \in keep \cup {r} |-> IF x = r THEN A[obj.board] ELSE A[x]],
        obj |-> [obj EXCEPT !.board = r]]

-----------------------------------------------------------------------------
(* board_util.generate_random_move and gomoku3.get_order                   *)

\* the moves generate_random_move may return: any empty point, None when
\* there is none
generate_random_move(self) ==
    IF get_empty_points(self.board) = <<>> THEN {None}
    ELSE Range(get_empty_points(self.board))

\* the orders list(set(...)) may give the points of S
Orders(S) ==
    {f \in [1 .. Cardinality(S) -> S] : \A a, b \in 1 .. Cardinality(S) :
                                            a # b => f[a] # f[b]}

\* a get_order that looks at OpenFour() before BlockWin()
get_order_open_four_first(self) ==
    IF Win(self) # <<>>
    THEN [raised |-> "", none |-> FALSE, lists |-> {Win(self)}]
    ELSE IF OpenFour(self) # <<>>
    THEN [raised |-> "", none |-> FALSE, lists |-> {OpenFour(self)}]
    ELSE IF BlockWin(self) # <<>>
    THEN [raised |-> "", none |-> FALSE, lists |-> {BlockWin(self)}]
    ELSE IF BlockOpenFour(self).raised # ""
    THEN [raised |-> BlockOpenFour(self).raised, none |-> FALSE, lists |-> {}]
    ELSE IF BlockOpenFour(self).moves # {}
    THEN [raised |-> "", none |-> FALSE, lists |-> Orders(BlockOpenFour(self).moves)]
    ELSE IF get_empty_points(self.board) # <<>>
    THEN [raised |-> "", none |-> FALSE, lists |-> {get_empty_points(self.board)}]
    ELSE [raised |-> "", none |-> TRUE, lists |-> {}]

\* get_order: raised is the exception, none says that None is returned,
\* lists holds the lists that may be returned otherwise
get_order(self) ==
    IF Win(self) # <<>>
    THEN [raised |-> "", none |-> FALSE, lists |-> {Win(self)}]
    ELSE IF BlockWin(self) # <<>>
    THEN [raised |-> "", none |-> FALSE, lists |-> {BlockWin(self)}]
    ELSE IF OpenFour(self) # <<>>
    THEN [raised |-> "", none |-> FALSE, lists |-> {OpenFour(self)}]
    ELSE IF BlockOpenFour(self).raised # ""
    THEN [raised |-> BlockOpenFour(self).raised, none |-> FALSE, lists |-> {}]
    ELSE IF BlockOpenFour(self).moves # {}
    THEN [raised |-> "", none |-> FALSE, lists |-> Orders(BlockOpenFour(self).moves)]
    ELSE IF get_empty_points(self.board) # <<>>
    THEN [raised |-> "", none |-> FALSE, lists |-> {get_empty_points(self.board)}]
    ELSE [raised |-> "", none |-> TRUE, lists |-> {}]

-----------------------------------------------------------------------------
(* The interface of one GoBoard: calls of play_move on `board`.            *)

MainRef == 1

NewBoard == [board |-> MainRef, current_player |-> BLACK,
             last_move |-> None, last2_move |-> None]

NoCall == [op |-> "none", point |-> None, color |-> BLACK, ret |-> FALSE]

SimIdle ==
    /\ temp = NoBoard
    /\ pc = "idle"
    /\ policy = "none"
    /\ color = BLACK
    /\ legal_moves = <<>>
    /\ score = <<>>
    /\ i = 0
    /\ j = 0
    /\ win = 0
    /\ best = None
    /\ depth = 0
    /\ empty0 = 0
    /\ raised = ""

\* GoBoard(Size)
Init ==
    /\ arrays = [r \in {MainRef} |-> EmptyGrid]
    /\ board = NewBoard
    /\ call = NoCall
    /\ SimIdle

\* the points play_move is called with: playable cells, cells of the BORDER
\* ring, and PASS
MovePoints == {pt(4, 3), pt(4, 4), pt(7, 7), pt(4, 0), 0, maxpoint - 1, PASS}

PlayMove(point, c) ==
    LET r == play_move(Deref(arrays, board), point, c)
    IN /\ pc = "idle"
       /\ arrays' = StoreArrays(arrays, board, r.self)
       /\ board' = StoreObj(board, r.self)
       /\ call' = [op |-> "play_move", point |-> point, color |-> c, ret |-> r.ret]
       /\ UNCHANGED simvars

\* an is_legal that plays the move on the board itself
is_legal_in_place(A, obj, point, c) ==
    LET r == play_move(Deref(A, obj), point, c)
    IN [ret |-> r.ret,
        arrays |-> StoreArrays(A, obj, r.self),
        obj |-> StoreObj(obj, r.self)]

\* is_legal: play_move on a copy; the value returned, and the store and the
\* object after the call, when the copy is garbage
is_legal(A, obj, point, c) ==
    LET board_copy == copy(A, obj, DOMAIN A)
        r == play_move(Deref(board_copy.arrays, board_copy.obj), point, c)
        after == StoreArrays(board_copy.arrays, board_copy.obj, r.self)
    IN [ret |-> r.ret,
        arrays |-> [x \in DOMAIN A |-> after[x]],
        obj |-> obj]

IsLegal(point, c) ==
    LET r == is_legal(arrays, board, point, c)
    IN /\ pc = "idle"
       /\ arrays' = r.arrays
       /\ board' = r.obj
       /\ call' = [op |-> "is_legal", point |-> point, color |-> c, ret |-> r.ret]
       /\ UNCHANGED simvars

Next ==
    \/ \E point \in MovePoints : \E c \in {BLACK, WHITE} : PlayMove(point, c)
    \/ \E point \in MovePoints : \E c \in {BLACK, WHITE} : IsLegal(point, c)

Spec == Init /\ [][Next]_vars

Grid == arrays[board.board]

\* C1: play_move on a point whose cell is not EMPTY (a stone or BORDER)
\* returns False and leaves the grid, current_player, last_move and
\* last2_move as they were.
C1_OccupiedPointRejected ==
    [][(/\ call'.op = "play_move"
        /\ call'.point # PASS
        /\ At(Grid, call'.point) # EMPTY)
       => (/\ call'.ret = FALSE
           /\ arrays' = arrays
           /\ board' = board)]_vars

\* a move on a stone has been rejected, after another move was played
C1_Witness ==
    /\ call.op = "play_move"
    /\ call.ret = FALSE
    /\ call.point = pt(4, 3)
    /\ Grid[pt(4, 3)] \in {BLACK, WHITE}
    /\ Grid[pt(4, 4)] \in {BLACK, WHITE}
    /\ board.last_move = pt(4, 4)

\* C2 as stated: play_move(PASS, c) returns True, leaves the grid alone and
\* makes current_player the opponent of what it was before the call.
C2_PassToggles ==
    [][(call'.op = "play_move" /\ call'.point = PASS)
       => (/\ call'.ret = TRUE
           /\ arrays' = arrays
           /\ board'.current_player = opponent(board.current_player))]_vars

\* C2 amended: play_move(PASS, c) returns True, leaves the grid alone and
\* makes current_player the opponent of c, whoever was to play; it toggles
\* current_player exactly when c is the player to move.
C2_PassSetsOpponentOfColor ==
    [][(call'.op = "play_move" /\ call'.point = PASS)
       => (/\ call'.ret = TRUE
           /\ arrays' = arrays
           /\ board'.current_player = opponent(call'.color)
           /\ (board'.current_player = opponent(board.current_player)
                 <=> call'.color = board.current_player))]_vars

\* a pass by the colour that was not to move: the colour of the stone played
\* just before it
C2_Witness ==
    /\ call.op = "play_move"
    /\ call.point = PASS
    /\ call.ret = TRUE
    /\ board.last_move = PASS
    /\ board.last2_move = pt(4, 3)
    /\ call.color = Grid[pt(4, 3)]

-----------------------------------------------------------------------------
(* The queries of a GoBoard, called on positions that play_move reaches:   *)
(* play_move accepts either colour on any empty point and PASS in any      *)
(* state, so every placement of stones with either player to move is a     *)
(* position of the program.  The positions below are those reached by      *)
(* placing the stones and then passing twice: last_move and last2_move are *)
(* PASS, which is None, and current_player is the opponent of the colour   *)
(* that passed last.                                                       *)

Colors == {EMPTY, BLACK, WHITE}

\* the lines the positions are drawn on, as <<first point, stride>>: row 4,
\* column 4 and the two main diagonals
ProbeLines == {<<pt(4, 1), 1>>, <<pt(1, 4), NS>>,
               <<pt(1, 1), NS + 1>>, <<pt(1, 7), NS - 1>>}

\* the grid with the Size cells from p with stride step coloured by cs, all
\* else EMPTY
Coloured(p, step, cs) ==
    [q \in Points |->
        IF (q - p) % step = 0 /\ (q - p) \div step \in 0 .. (Size - 1)
        THEN cs[(q - p) \div step + 1]
        ELSE EmptyGrid[q]]

\* five stones of colour c from p with stride step, on grid g
Five(g, p, step, c) ==
    [q \in Points |-> IF \E k \in 0 .. 4 : q = p + k * step THEN c ELSE g[q]]

\* grids with two fives: a row, a column and a diagonal of each direction,
\* the second laid over the first
FiveSegments == {<<pt(2, 2), 1>>, <<pt(6, 1), 1>>, <<pt(3, 6), NS>>,
                 <<pt(1, 1), NS>>, <<pt(3, 1), NS + 1>>, <<pt(2, 6), NS - 1>>}

\* the most stones a position drawn on one line holds
MaxStones == 4

InitLines ==
    /\ \/ \E line \in ProbeLines : \E cs \in [1 .. Size -> Colors] :
            /\ Cardinality({k \in 1 .. Size : cs[k] # EMPTY}) <= MaxStones
            /\ arrays = [r \in {MainRef} |-> Coloured(line[1], line[2], cs)]
       \/ \E a \in FiveSegments : \E b \in FiveSegments :
            \E ca \in {BLACK, WHITE} : \E cb \in {BLACK, WHITE} :
              arrays = [r \in {MainRef} |->
                          Five(Five(EmptyGrid, a[1], a[2], ca), b[1], b[2], cb)]
    /\ \E c \in {BLACK, WHITE} : board = [NewBoard EXCEPT !.current_player = c]
    /\ call = NoCall
    /\ SimIdle

Query(op, ret) ==
    /\ pc = "idle"
    /\ call.op = "none"
    /\ call' = [op |-> op, point |-> None, color |-> board.current_player, ret |-> ret]
    /\ UNCHANGED <<arrays, board, simvars>>

CallDetect == Query("detect_five_in_a_row", detect_five_in_a_row(Grid))
CallWin == Query("Win", Win(Deref(arrays, board)))
CallBlockWin == Query("BlockWin", BlockWin(Deref(arrays, board)))
CallOpenFour == Query("OpenFour", OpenFour(Deref(arrays, board)))
CallBlockOpenFour == Query("BlockOpenFour", BlockOpenFour(Deref(arrays, board)))

NextLines ==
    \/ CallDetect
    \/ CallWin
    \/ CallBlockWin
    \/ CallOpenFour
    \/ CallBlockOpenFour

SpecLines == InitLines /\ [][NextLines]_vars

-----------------------------------------------------------------------------
(* gomoku3.simulation, one call, on positions with few empty points.       *)

\* a full board without a five: runs of two along every row and diagonal,
\* alternating colours down every column
BaseGrid ==
    [p \in Points |->
        IF EmptyGrid[p] = BORDER THEN BORDER
        ELSE IF ((p % NS) + 2 * (p \div NS)) % 4 < 2 THEN BLACK ELSE WHITE]

\* g with the cells of ps set to colour c
Put(g, ps, c) == [p \in Points |-> IF p \in ps THEN c ELSE g[p]]

\* row 4 is . . W W W . B
GridA == Put(Put(Put(BaseGrid, {pt(4, 3), pt(4, 4), pt(4, 5)}, WHITE),
                 {pt(4, 7)}, BLACK),
             {pt(4, 1), pt(4, 2), pt(4, 6)}, EMPTY)

\* row 4 is B B B B . . W
GridB == Put(Put(Put(BaseGrid, {pt(4, 1), pt(4, 2), pt(4, 3), pt(4, 4)}, BLACK),
                 {pt(4, 7)}, WHITE),
             {pt(4, 5), pt(4, 6)}, EMPTY)

\* column 4 is empty in rows 3 and 4 and WHITE in rows 5 to 7
GridC == Put(Put(BaseGrid, {pt(5, 4), pt(6, 4), pt(7, 4)}, WHITE),
             {pt(3, 4), pt(4, 4)}, EMPTY)

\* three empty points on the main diagonal
GridD == Put(BaseGrid, {pt(1, 1), pt(4, 4), pt(7, 7)}, EMPTY)

\* one empty point
GridE == Put(BaseGrid, {pt(4, 4)}, EMPTY)

\* row 4 is . B B B B . W
GridF == Put(Put(BaseGrid, {pt(4, 2), pt(4, 3), pt(4, 4), pt(4, 5)}, BLACK),
             {pt(4, 1), pt(4, 6)}, EMPTY)

\* GridB with a WHITE five in row 2
GridG == Put(GridB, {pt(2, 1), pt(2, 2), pt(2, 3), pt(2, 4), pt(2, 5)}, WHITE)

SimGrids == {GridA, GridB, GridC, GridD, GridE, GridF, GridG, BaseGrid}

\* the deepest recursion of a rollout that is followed
MaxDepth == 5

\* simulation is called on one of the positions above, reached as those of
\* InitLines are, with either player to move
InitSim ==
    /\ \E g \in SimGrids : arrays = [r \in {MainRef} |-> g]
    /\ \E c \in {BLACK, WHITE} : board = [NewBoard EXCEPT !.current_player = c]
    /\ call = NoCall
    /\ SimIdle

CountEmpty(g) == Len(get_empty_points(g))

\* lines 48-51 and 65-67: the candidates and the score list
Simulate(col, pol) ==
    /\ pc = "idle"
    /\ policy' = pol
    /\ color' = col
    /\ IF pol = "random"
       THEN /\ legal_moves' = get_empty_points(Grid)
            /\ pc' = "candidate"
            /\ raised' = ""
       ELSE LET order == get_order(Deref(arrays, board))
            IN IF order.raised # ""
               THEN legal_moves' = <<>> /\ pc' = "raised" /\ raised' = order.raised
               ELSE IF order.none
               THEN \* len(None)
                    legal_moves' = <<>> /\ pc' = "raised" /\ raised' = "TypeError"
               ELSE /\ legal_moves' \in order.lists
                    /\ pc' = "candidate"
                    /\ raised' = ""
    /\ score' = [k \in 1 .. Len(legal_moves') |-> <<0, 1>>]
    /\ i' = 1
    /\ UNCHANGED <<arrays, board, call, temp, j, win, best, depth, empty0>>

\* lines 52-54 and 68-70: temp = board.copy(); move = legal_moves[i]
Candidate ==
    /\ pc = "candidate"
    /\ i <= Len(legal_moves)
    /\ LET r == copy(arrays, board, {board.board})
       IN arrays' = r.arrays /\ temp' = r.obj
    /\ j' = 0
    /\ pc' = "trial"
    /\ UNCHANGED <<board, call, policy, color, legal_moves, score, i, win, best,
                   depth, empty0, raised>>

\* lines 56-58 and 72-74: temp.play_move(move, color) and the call of the rollout
Trial ==
    /\ pc = "trial"
    /\ j < NN
    /\ LET r == play_move(Deref(arrays, temp), legal_moves[i], color)
       IN /\ arrays' = StoreArrays(arrays, temp, r.self)
          /\ temp' = StoreObj(temp, r.self)
          /\ empty0' = CountEmpty(r.self.board)
    /\ depth' = 0
    /\ pc' = "rollout"
    /\ UNCHANGED <<board, call, policy, color, legal_moves, score, i, j, win, best,
                   raised>>

\* a return that counts every trial that did not end exhausted
Return_counts_losses(w) ==
    /\ win' = w
    /\ score' = IF w # 0 THEN [score EXCEPT ![i] = <<score[i][1] + 1, 1>>] ELSE score
    /\ j' = j + 1
    /\ pc' = "trial"
    /\ UNCHANGED <<arrays, board, call, temp, policy, color, legal_moves, i, best,
                   depth, empty0, raised>>

\* the rollout returns w to simulation: lines 59-60 and 75-76
Return(w) ==
    /\ win' = w
    /\ score' = IF w = 1 THEN [score EXCEPT ![i] = <<score[i][1] + 1, 1>>] ELSE score
    /\ j' = j + 1
    /\ pc' = "trial"
    /\ UNCHANGED <<arrays, board, call, temp, policy, color, legal_moves, i, best,
                   depth, empty0, raised>>

\* an exception leaves simulation
Raise(e) ==
    /\ raised' = e
    /\ pc' = "raised"
    /\ UNCHANGED <<arrays, board, call, temp, policy, color, legal_moves, score,
                   i, j, win, best, depth, empty0>>

\* one call of sim_for_one: the name `move` of line 93 is bound nowhere
SimForOne ==
    /\ pc = "rollout"
    /\ policy = "random"
    /\ LET result == detect_five_in_a_row(arrays[temp.board])
       IN IF result = color THEN Return(1)
          ELSE IF result = opponent(color) THEN Return(0 - 1)
          ELSE \E moves \in generate_random_move(Deref(arrays, temp)) :
                  IF moves = None THEN Return(0) ELSE Raise("NameError")

\* a sim_for_one_rule whose first call does not look for a five
SimForOneRule_no_first_check ==
    /\ pc = "rollout"
    /\ policy = "rule_based"
    /\ LET result == IF depth = 0 THEN EMPTY
                     ELSE detect_five_in_a_row(arrays[temp.board])
           moves == get_order(Deref(arrays, temp))
       IN IF result = color THEN Return(1)
          ELSE IF result = opponent(color) THEN Return(0 - 1)
          ELSE IF moves.raised # "" THEN Raise(moves.raised)
          ELSE IF moves.none THEN Return(0)
          ELSE /\ depth < MaxDepth
               /\ \E list \in moves.lists : \E move \in Range(list) :
                    LET r == play_move(Deref(arrays, temp), move, temp.current_player)
                    IN /\ arrays' = StoreArrays(arrays, temp, r.self)
                       /\ temp' = StoreObj(temp, r.self)
               /\ depth' = depth + 1
               /\ UNCHANGED <<board, call, pc, policy, color, legal_moves, score,
                              i, j, win, best, empty0, raised>>

\* one call of sim_for_one_rule
SimForOneRule ==
    /\ pc = "rollout"
    /\ policy = "rule_based"
    /\ LET result == detect_five_in_a_row(arrays[temp.board])
           moves == get_order(Deref(arrays, temp))
       IN IF result = color THEN Return(1)
          ELSE IF result = opponent(color) THEN Return(0 - 1)
          ELSE IF moves.raised # "" THEN Raise(moves.raised)
          ELSE IF moves.none THEN Return(0)
          ELSE /\ depth < MaxDepth
               /\ \E list \in moves.lists : \E move \in Range(list) :
                    LET r == play_move(Deref(arrays, temp), move, temp.current_player)
                    IN /\ arrays' = StoreArrays(arrays, temp, r.self)
                       /\ temp' = StoreObj(temp, r.self)
               /\ depth' = depth + 1
               /\ UNCHANGED <<board, call, pc, policy, color, legal_moves, score,
                              i, j, win, best, empty0, raised>>

\* lines 61 and 77: score[i] = score[i] / self.NN, and the next candidate
EndCandidate ==
    /\ pc = "trial"
    /\ j = NN
    /\ score' = [score EXCEPT ![i] = <<score[i][1], NN>>]
    /\ i' = i + 1
    /\ pc' = "candidate"
    /\ UNCHANGED <<arrays, board, call, temp, policy, color, legal_moves, j, win,
                   best, depth, empty0, raised>>

\* the last index of the largest score
BestIndex_last(sc) ==
    CHOOSE k \in 1 .. Len(sc) :
        /\ \A m \in 1 .. Len(sc) : sc[m][1] <= sc[k][1]
        /\ \A m \in (k + 1) .. Len(sc) : sc[m][1] < sc[k][1]

\* the first index of the largest score: score.index(max(score))
BestIndex(sc) ==
    CHOOSE k \in 1 .. Len(sc) :
        /\ \A m \in 1 .. Len(sc) : sc[m][1] <= sc[k][1]
        /\ \A m \in 1 .. (k - 1) : sc[m][1] < sc[k][1]

\* lines 62-64 and 78-80; max of an empty list raises ValueError
Finish ==
    /\ pc = "candidate"
    /\ i > Len(legal_moves)
    /\ IF score = <<>>
       THEN /\ pc' = "raised"
            /\ raised' = "ValueError"
            /\ best' = best
       ELSE /\ pc' = "done"
            /\ raised' = raised
            /\ best' = legal_moves[BestIndex(score)]
    /\ UNCHANGED <<arrays, board, call, temp, policy, color, legal_moves, score,
                   i, j, win, depth, empty0>>

NextSim ==
    \/ \E col \in {BLACK, WHITE} : \E pol \in {"random", "rule_based"} : Simulate(col, pol)
    \/ Candidate
    \/ Trial
    \/ SimForOne
    \/ SimForOneRule
    \/ EndCandidate
    \/ Finish

SpecSim == InitSim /\ [][NextSim]_vars

TempGrid == arrays[temp.board]

\* C3: every trial of every candidate starts on the input board plus the
\* candidate stone of `color` and nothing else: where the trial board differs
\* from the input it is at the candidate point, so no stone of an earlier
\* trial is there.
C3_TrialStartsFromInput ==
    (pc = "rollout" /\ depth = 0) =>
        \A p \in Points :
            TempGrid[p] # Grid[p] => (p = legal_moves[i] /\ TempGrid[p] = color)

\* C4: simulation never changes the board it is given: its grid,
\* current_player, last_move and last2_move stay what they were, whatever the
\* rollouts play.
C4_InputBoardUntouched ==
    [][pc' # "idle" =>
          /\ board' = board
          /\ arrays'[board.board] = arrays[board.board]]_vars

\* a rule_based call has returned after a rollout put stones on temp
C4_Witness ==
    /\ pc = "done"
    /\ policy = "rule_based"
    /\ CountEmpty(TempGrid) + 2 <= CountEmpty(Grid)
    /\ Grid \in SimGrids

\* C5: a rollout makes at most as many recursive calls as the trial board had
\* EMPTY points when the trial started.
C5_DepthWithinEmptyPoints ==
    pc = "rollout" => depth <= empty0

\* C6: a step of the random rollout that finds no five and an empty point
\* fills one empty point with a stone of the board's current player and goes
\* on with the same color; it raises nothing.
C6_RandomStepPlays ==
    [][(/\ pc = "rollout"
        /\ policy = "random"
        /\ detect_five_in_a_row(TempGrid) = EMPTY
        /\ CountEmpty(TempGrid) > 0)
       => (/\ raised' = ""
           /\ pc' = "rollout"
           /\ color' = color
           /\ \E p \in Points :
                /\ TempGrid[p] = EMPTY
                /\ arrays'[temp.board] = SetAt(TempGrid, p, temp.current_player))]_vars

-----------------------------------------------------------------------------
(* What the claims say of the queries, stated on the grid itself.          *)

Strides == {1, NS, NS + 1, NS - 1}

Self == Deref(arrays, board)
EmptyPoints == {p \in Points : Grid[p] = EMPTY}
Unraised == call.ret.raised = ""

\* five consecutive cells of colour c from p along a stride; the BORDER ring
\* keeps five such cells on one row, column or diagonal
FiveAt(g, p, step, c) ==
    \A k \in 0 .. 4 : p + k * step \in Points /\ g[p + k * step] = c

FiveStarts(g, step) ==
    {p \in Points : FiveAt(g, p, step, BLACK) \/ FiveAt(g, p, step, WHITE)}

NoFive(g) == \A step \in Strides : FiveStarts(g, step) = {}

Min(S) == CHOOSE x \in S : \A y \in S : x <= y

\* column-major rank of a point: the scan order of the columns
ColRank(p) == (p % NS) * NS + (p \div NS)

\* C7: detect_five_in_a_row returns EMPTY exactly when no row, column or
\* diagonal holds five consecutive cells of one colour BLACK or WHITE;
\* otherwise it returns the colour of the first five met over the rows in
\* order, then the columns in order, then the diagonals.
C7_DetectFirstFive ==
    call.op = "detect_five_in_a_row" =>
        LET g == Grid
            inRows == FiveStarts(g, 1)
            inCols == FiveStarts(g, NS)
            inDiags == FiveStarts(g, NS + 1) \cup FiveStarts(g, NS - 1)
        IN /\ (call.ret = EMPTY) <=> NoFive(g)
           /\ call.ret \in {EMPTY, BLACK, WHITE}
           /\ inRows # {} => call.ret = g[Min(inRows)]
           /\ (inRows = {} /\ inCols # {}) =>
                 call.ret = g[CHOOSE p \in inCols :
                                 \A q \in inCols : ColRank(p) <= ColRank(q)]
           /\ (inRows = {} /\ inCols = {} /\ inDiags # {}) =>
                 call.ret \in {g[p] : p \in inDiags}

\* a WHITE five in a row is reported although a BLACK five stands in a column
C7_Witness ==
    /\ call.op = "detect_five_in_a_row"
    /\ call.ret = WHITE
    /\ FiveAt(Grid, pt(6, 1), 1, WHITE)
    /\ FiveAt(Grid, pt(3, 6), NS, BLACK)

\* the empty points where a stone of colour c makes detect_five_in_a_row
\* return c
Winning(c) ==
    {p \in EmptyPoints :
        detect_five_in_a_row(play_move(Self, p, c).self.board) = c}

\* C8: on a board without a five, Win() is exactly the set of empty points p
\* where play_move(p, current_player) makes detect_five_in_a_row() return
\* current_player, and BlockWin() is what Win() is with the opponent to move.
C8_WinIsWinningPoints ==
    /\ (call.op = "Win" /\ NoFive(Grid)) =>
          Range(call.ret) = Winning(board.current_player)
    /\ (call.op = "BlockWin" /\ NoFive(Grid)) =>
          call.ret = Win([Self EXCEPT !.current_player = opponent(board.current_player)])

\* four stones of the player to move in row 4, both ends empty: Win() gives
\* the two end points
C8_Witness ==
    /\ call.op = "Win"
    /\ \A k \in 2 .. 5 : Grid[pt(4, k)] = board.current_player
    /\ call.ret = <<pt(4, 1), pt(4, 6)>>

\* the number of consecutive cells of colour c from p + step along step
RunFrom(g, p, step, c) ==
    CHOOSE n \in 0 .. Size :
        /\ \A k \in 1 .. n : g[p + k * step] = c
        /\ g[p + (n + 1) * step] # c

RunThrough(g, p, step, c) == 1 + RunFrom(g, p, step, c) + RunFrom(g, p, 0 - step, c)

\* the cell that ends the run from p in the sense of step
EndOf(g, p, step, c) == p + (RunFrom(g, p, step, c) + 1) * step

BothEndsEmpty(g, p, step, c) ==
    g[EndOf(g, p, step, c)] = EMPTY /\ g[EndOf(g, p, 0 - step, c)] = EMPTY

\* the grid holds stones of colour c on cells 3, 4, 5 of a line and nothing else
ThreeInLine(line, c) ==
    Grid = Coloured(line[1], line[2],
                    [k \in 1 .. Size |-> IF k \in 3 .. 5 THEN c ELSE EMPTY])

\* C9: OpenFour() is exactly the set of empty points p where, on some axis,
\* the run of current_player stones through p (p counted) has length 4 and
\* both cells that end it are EMPTY; three stones in a line with two empty
\* cells on each side give the two cells next to the run.
C9_OpenFourExact ==
    call.op = "OpenFour" =>
        /\ Range(call.ret) =
              {p \in EmptyPoints : \E step \in Strides :
                  /\ RunThrough(Grid, p, step, board.current_player) = 4
                  /\ BothEndsEmpty(Grid, p, step, board.current_player)}
        /\ \A line \in ProbeLines :
              ThreeInLine(line, board.current_player) =>
                  Range(call.ret) = {line[1] + line[2], line[1] + 5 * line[2]}

\* three stones on a diagonal, two empty cells on each side
C9_Witness ==
    /\ call.op = "OpenFour"
    /\ ThreeInLine(<<pt(1, 7), NS - 1>>, board.current_player)
    /\ call.ret = <<pt(2, 6), pt(6, 2)>>

\* x is a playable point on the line through p along step
OnLineOf(p, x, step) ==
    /\ x \in Points
    /\ EmptyGrid[x] = EMPTY
    /\ \E k \in (0 - Size) .. Size : x = p + k * step /\
          \A m \in 0 .. Size : (m <= k \/ m <= 0 - k) =>
              EmptyGrid[p + (IF k >= 0 THEN m ELSE 0 - m) * step] = EMPTY

\* what sub-case (a) appends for point p on the axis of stride step
AxisAppends(g, p, step, c) ==
    IF step = 1 THEN a_row(g, p, checkrow2(g, p, c))
    ELSE a_axis(g, p, probe2(g, p, step, c), step)

\* C10: in sub-case (a) of BlockOpenFour, for an empty point i whose opponent
\* run on an axis is 4 with one ending cell EMPTY and all stones on one side,
\* the point added with i is i + 5*stride when the stones lie in the + sense
\* and i - 5*stride when they lie in the - sense, it is on the line of i, and
\* this is so on all four axes.
C10_ExtraPointAlongRun ==
    (call.op = "BlockOpenFour" /\ Unraised) =>
        \A p \in EmptyPoints : \A step \in Strides :
            LET g == Grid
                c == opponent(board.current_player)
                n1 == RunFrom(g, p, step, c)
                n2 == RunFrom(g, p, 0 - step, c)
                ends == {e \in {EndOf(g, p, step, c), EndOf(g, p, 0 - step, c)} :
                            g[e] = EMPTY}
                x == IF n2 = 0 THEN p + 5 * step ELSE p - 5 * step
            IN (/\ n1 + n2 = 3
                /\ n1 = 0 \/ n2 = 0
                /\ Cardinality(ends) = 1
                /\ AxisAppends(g, p, step, c) # <<>>)
               => /\ AxisAppends(g, p, step, c) = <<x, p>>
                  /\ {x, p} \subseteq call.ret.moves
                  /\ OnLineOf(p, x, step)

\* all that the loop body of BlockOpenFour appends for point p on account of
\* the axis of stride step: sub-cases (a), (b) and (c)
AxisContributes(g, p, step, c) ==
    Range(AxisAppends(g, p, step, c))
    \cup Range(b_axis(p, probe2(g, p, step, c)))
    \cup Range(c_axis(probe2(g, p, step, c)))

\* C11: in BlockOpenFour, for an empty point i inside a gap of the opponent's
\* stones on an axis (stones on both sides, run 4 counting i, both ending
\* cells EMPTY), the axis contributes the two ending cells and not i.
C11_GapAddsEndsNotPoint ==
    (call.op = "BlockOpenFour" /\ Unraised) =>
        \A p \in EmptyPoints : \A step \in Strides :
            LET g == Grid
                c == opponent(board.current_player)
                n1 == RunFrom(g, p, step, c)
                n2 == RunFrom(g, p, 0 - step, c)
            IN (/\ n1 > 0
                /\ n2 > 0
                /\ n1 + n2 = 3
                /\ BothEndsEmpty(g, p, step, c))
               => /\ AxisContributes(g, p, step, c) =
                        {EndOf(g, p, step, c), EndOf(g, p, 0 - step, c)}
                  /\ AxisContributes(g, p, step, c) \subseteq call.ret.moves

\* C12: every point returned by Win(), BlockWin(), OpenFour() and
\* BlockOpenFour() is a playable cell that holds EMPTY, so that play_move on
\* it succeeds.
C12_CandidatesAreEmpty ==
    /\ call.op \in {"Win", "BlockWin", "OpenFour"} =>
          \A p \in Range(call.ret) :
              p \in EmptyPoints /\ play_move(Self, p, board.current_player).ret
    /\ (call.op = "BlockOpenFour" /\ Unraised) =>
          \A p \in call.ret.moves :
              p \in EmptyPoints /\ play_move(Self, p, board.current_player).ret

-----------------------------------------------------------------------------
(* gomoku3.get_order, called on positions with stones in two rows and on    *)
(* the positions of SimGrids.                                              *)

\* the cells of a row, from the left, that may hold stones
PatternCells == 5

\* a row of the position: EMPTY, or three or four stones of one colour
OrderPatterns ==
    {cs \in [1 .. Size -> Colors] :
        /\ \A k \in 1 .. Size : k > PatternCells => cs[k] = EMPTY
        /\ Cardinality({k \in 1 .. Size : cs[k] # EMPTY}) \in {0, 3, 4}
        /\ \A a, b \in 1 .. Size : (cs[a] # EMPTY /\ cs[b] # EMPTY) => cs[a] = cs[b]}

\* the grid with row 2 coloured by cs1 and row 6 by cs2, all else EMPTY
TwoRows(cs1, cs2) ==
    [q \in Points |->
        IF q \div NS = 2 /\ q % NS \in 1 .. Size THEN cs1[q % NS]
        ELSE IF q \div NS = 6 /\ q % NS \in 1 .. Size THEN cs2[q % NS]
        ELSE EmptyGrid[q]]

InitOrder ==
    /\ \/ \E cs1 \in OrderPatterns : \E cs2 \in OrderPatterns :
             arrays = [r \in {MainRef} |-> TwoRows(cs1, cs2)]
       \/ \E g \in SimGrids : arrays = [r \in {MainRef} |-> g]
    /\ \E c \in {BLACK, WHITE} : board = [NewBoard EXCEPT !.current_player = c]
    /\ call = NoCall
    /\ SimIdle

CallGetOrder == Query("get_order", get_order(Deref(arrays, board)))

NextOrder == CallGetOrder

SpecOrder == InitOrder /\ [][NextOrder]_vars

\* the ranks of the first non-empty set of the sequence sets (one rank, or
\* none)
FirstNonEmpty(sets) ==
    {k \in 1 .. Len(sets) : /\ sets[k] # {}
                            /\ \A m \in 1 .. (k - 1) : sets[m] = {}}

\* C13: get_order returns the first non-empty set in the order Win(),
\* BlockWin(), OpenFour(), BlockOpenFour(), all empty points: a set is
\* returned only when every set before it is empty, and it is returned whole
\* and as the query gave it.  (When BlockOpenFour() raises, the three sets
\* before it were empty; when every set is empty, nothing is returned.)
C13_FirstNonEmptySet ==
    call.op = "get_order" =>
        LET w == Win(Self)
            bw == BlockWin(Self)
            o == OpenFour(Self)
            bo == BlockOpenFour(Self)
            e == get_empty_points(Grid)
            sets == <<Range(w), Range(bw), Range(o), bo.moves, Range(e)>>
            first == FirstNonEmpty(sets)
        IN /\ call.ret.raised # "" =>
                 /\ \A m \in 1 .. 3 : sets[m] = {}
                 /\ bo.raised = call.ret.raised
           /\ call.ret.raised = "" =>
                 /\ bo.raised = "" \/ \E m \in 1 .. 3 : sets[m] # {}
                 /\ call.ret.none <=> first = {}
                 /\ call.ret.lists # {} <=> first # {}
                 /\ \A l \in call.ret.lists : \E k \in first :
                       /\ Range(l) = sets[k]
                       /\ Len(l) = Cardinality(sets[k])
                       /\ k = 1 => l = w
                       /\ k = 2 => l = bw
                       /\ k = 3 => l = o
                       /\ k = 5 => l = e

\* BlockWin() is returned although OpenFour() is not empty
C13_Witness ==
    /\ call.op = "get_order"
    /\ call.ret.lists = {BlockWin(Self)}
    /\ OpenFour(Self) # <<>>
    /\ BlockOpenFour(Self).moves # {}

\* the score <<n, d>> of a candidate as a number of wins out of NN trials
WinsOf(sc) == (sc[1] * NN) \div sc[2]

\* C14: simulation returns a candidate whose score is the largest of all, and
\* of the candidates with the largest score the earliest in the candidate
\* ordering: all empty points in index order for random, the list of
\* get_order for rule_based.
C14_BestIsFirstMaximum ==
    pc = "done" =>
        /\ policy = "random" => legal_moves = get_empty_points(Grid)
        /\ policy = "rule_based" => legal_moves \in get_order(Self).lists
        /\ \E k \in 1 .. Len(legal_moves) :
              /\ best = legal_moves[k]
              /\ \A m \in 1 .. Len(legal_moves) : WinsOf(score[m]) <= WinsOf(score[k])
              /\ \A m \in 1 .. (k - 1) : WinsOf(score[m]) < WinsOf(score[k])

\* two candidates won every trial and the first of them is returned
C14_Witness ==
    /\ pc = "done"
    /\ Len(legal_moves) = 2
    /\ WinsOf(score[1]) = NN
    /\ WinsOf(score[2]) = NN
    /\ best = legal_moves[1]

\* C15: the score of a candidate is wins/NN, wins being the number of its NN
\* trials that returned 1: the count starts at 0, a trial that returns 1 adds
\* one, a trial that returns -1 or 0 adds nothing, the count is divided by NN
\* after the NN trials, and so every score of a call that returns is k/NN
\* with 0 <= k <= NN.
C15_ScoreIsWinsOverN ==
    [][/\ (pc = "candidate" /\ pc' = "trial") =>
             /\ score'[i'] = <<0, 1>>
             /\ j' = 0
       /\ (pc = "rollout" /\ pc' = "trial") =>
             /\ win' \in {0 - 1, 0, 1}
             /\ j' = j + 1
             /\ score' = [score EXCEPT
                             ![i] = <<score[i][1] + (IF win' = 1 THEN 1 ELSE 0), 1>>]
       /\ (pc = "rollout" /\ pc' = "rollout") => score' = score /\ j' = j
       /\ pc' = "trial" => score'[i'][1] \in 0 .. j' /\ j' <= NN
       /\ (pc = "trial" /\ pc' = "candidate") =>
             /\ j = NN
             /\ score' = [score EXCEPT ![i] = <<score[i][1], NN>>]
       /\ pc' = "done" =>
             \A k \in 1 .. Len(score') :
                 /\ score'[k][2] = NN
                 /\ score'[k][1] \in 0 .. NN]_vars

\* a call has returned with a candidate that won all its trials and a last
\* candidate whose trials ended exhausted
C15_Witness ==
    /\ pc = "done"
    /\ win = 0
    /\ score[Len(score)] = <<0, NN>>
    /\ \E k \in 1 .. Len(score) : score[k] = <<NN, NN>>

-----------------------------------------------------------------------------
(* GoBoard(size) for every size, with calls of play_move and reads of the  *)
(* lines that the constructor derived.                                     *)

\* self.size of the board whose array is g: reset makes the array
\* size*size + 3*(size+1) long
size_of(g) ==
    CHOOSE size \in 2 .. MAXSIZE : Cardinality(DOMAIN g) = maxpointOf(size)

_neighbors(ns, point) == <<point - 1, point + 1, point - ns, point + ns>>

_diag_neighbors(ns, point) ==
    <<point - ns - 1, point - ns + 1, point + ns - 1, point + ns + 1>>

\* calculate_rows_cols_diags called by the constructor: nothing is assigned
\* for a size below 5 (set is FALSE), and the asserts that end it raise
\* AssertionError when a count is not the expected one
calculate_rows_cols_diags(size) ==
    IF size < 5
    THEN [set |-> FALSE, raised |-> "", rows |-> <<>>, cols |-> <<>>, diags |-> <<>>]
    ELSE LET r == calculate_rows(size)
             c == calculate_cols(size)
             d == calculate_diags(size)
         IN [set |-> TRUE,
             raised |-> IF /\ Len(r) = size
                           /\ Len(c) = size
                           /\ Len(d) = (2 * (size - 5) + 1) * 2
                        THEN "" ELSE "AssertionError",
             rows |-> r, cols |-> c, diags |-> d]

\* GoBoard(size), 2 <= size <= MAXSIZE
InitSizes ==
    /\ \E size \in 2 .. MAXSIZE :
          arrays = [r \in {MainRef} |-> _initialize_empty_points(size)]
    /\ board = NewBoard
    /\ call = NoCall
    /\ SimIdle

\* the points play_move is called with on a board of a size: the first and
\* the last playable point, cells of the BORDER ring around them, and PASS
SizedMovePoints(size) ==
    {0, NSof(size), row_startOf(size, 1), row_startOf(size, 1) + size,
     row_startOf(size, size) + size - 1, row_startOf(size, size) + size,
     maxpointOf(size) - 1, PASS}

\* self.rows, self.cols, self.diags as the constructor left them
ReadLines == Query("calculate_rows_cols_diags", calculate_rows_cols_diags(size_of(Grid)))

NextSizes ==
    \/ \E point \in SizedMovePoints(size_of(Grid)) : \E c \in {BLACK, WHITE} :
          PlayMove(point, c)
    \/ ReadLines

SpecSizes == InitSizes /\ [][NextSizes]_vars

\* p is the index of a playable point (row, col) of a board of a size
Playable(size, p) ==
    /\ p \div NSof(size) \in 1 .. size
    /\ p % NSof(size) \in 1 .. size

\* C16: on a board of any size from 2 to MAXSIZE, the four orthogonal and the
\* four diagonal neighbours of every playable point are indices of the array,
\* and in every state that play_move reaches every index that is no playable
\* point holds BORDER and every playable point holds EMPTY, BLACK or WHITE.
C16_PaddingInvariant ==
    LET g == Grid
        size == size_of(g)
    IN /\ DOMAIN g = 0 .. (size * size + 3 * (size + 1) - 1)
       /\ \A p \in DOMAIN g :
             IF Playable(size, p)
             THEN /\ g[p] \in {EMPTY, BLACK, WHITE}
                  /\ \A q \in Range(_neighbors(NSof(size), p))
                              \cup Range(_diag_neighbors(NSof(size), p)) :
                        q \in DOMAIN g
             ELSE g[p] = BORDER

\* on the largest board both corner points hold stones and play_move on the
\* last cell of the array, a BORDER cell, was refused
C16_Witness ==
    /\ size_of(Grid) = MAXSIZE
    /\ Grid[row_startOf(MAXSIZE, 1)] = BLACK
    /\ Grid[row_startOf(MAXSIZE, MAXSIZE) + MAXSIZE - 1] = WHITE
    /\ call.op = "play_move"
    /\ call.point = maxpointOf(MAXSIZE) - 1
    /\ call.ret = FALSE

-----------------------------------------------------------------------------
(* b2 = b.copy(), with calls of play_move on b (board) and on b2 (temp).   *)

CopyMovePoints == {pt(4, 3), pt(4, 4), PASS}

\* b2 = b.copy(), once
Copy ==
    /\ pc = "idle"
    /\ temp = NoBoard
    /\ LET r == copy(arrays, board, {board.board})
       IN arrays' = r.arrays /\ temp' = r.obj
    /\ call' = [op |-> "copy", point |-> None, color |-> board.current_player,
                ret |-> TRUE]
    /\ UNCHANGED <<board, pc, policy, color, legal_moves, score, i, j, win, best,
                   depth, empty0, raised>>

\* b2.play_move(point, c)
PlayMoveCopy(point, c) ==
    LET r == play_move(Deref(arrays, temp), point, c)
    IN /\ pc = "idle"
       /\ temp # NoBoard
       /\ arrays' = StoreArrays(arrays, temp, r.self)
       /\ temp' = StoreObj(temp, r.self)
       /\ call' = [op |-> "play_move_copy", point |-> point, color |-> c,
                   ret |-> r.ret]
       /\ UNCHANGED <<board, pc, policy, color, legal_moves, score, i, j, win, best,
                      depth, empty0, raised>>

NextCopy ==
    \/ \E point \in CopyMovePoints : \E c \in {BLACK, WHITE} : PlayMove(point, c)
    \/ Copy
    \/ \E point \in CopyMovePoints : \E c \in {BLACK, WHITE} : PlayMoveCopy(point, c)

SpecCopy == Init /\ [][NextCopy]_vars

\* C17: the board that copy() returns equals the original in grid,
\* current_player, last_move and last2_move; after it no play_move on the
\* copy changes the original and no play_move on the original changes the
\* copy.
C17_CopyEqualAndIndependent ==
    [][/\ call'.op = "copy" =>
             /\ arrays'[temp'.board] = arrays[board.board]
             /\ temp'.current_player = board.current_player
             /\ temp'.last_move = board.last_move
             /\ temp'.last2_move = board.last2_move
             /\ board' = board
             /\ arrays'[board'.board] = arrays[board.board]
       /\ call'.op = "play_move_copy" =>
             /\ board' = board
             /\ arrays'[board'.board] = arrays[board.board]
       /\ (call'.op = "play_move" /\ temp # NoBoard) =>
             /\ temp' = temp
             /\ arrays'[temp'.board] = arrays[temp.board]]_vars

\* after the copy a stone went on each board, on different points, and the
\* boards differ there
C17_Witness ==
    /\ temp # NoBoard
    /\ Grid[pt(4, 3)] = BLACK
    /\ TempGrid[pt(4, 3)] = EMPTY
    /\ Grid[pt(4, 4)] = EMPTY
    /\ TempGrid[pt(4, 4)] = WHITE
    /\ board.last_move = pt(4, 3)
    /\ temp.last_move = pt(4, 4)

\* the playable points from p on along step, up to the first index that is
\* no playable point
DiagFrom(size, p, step) ==
    {p + k * step : k \in {n \in 0 .. (size - 1) :
                              \A m \in 0 .. n : Playable(size, p + m * step)}}

\* the maximal diagonals of a board of a size, as sets of points: those that
\* start at a playable point with no playable point before it
MaximalDiagonals(size) ==
    {DiagFrom(size, p, step) :
        <<p, step>> \in {ps \in (0 .. (maxpointOf(size) - 1))
                                  \X {NSof(size) + 1, NSof(size) - 1} :
                            /\ Playable(size, ps[1])
                            /\ ~Playable(size, ps[1] - ps[2])}}

\* C18: for a size s from 5 to MAXSIZE the constructor derives s rows and s
\* columns of s points each and (2*(s-5)+1)*2 diagonals; the diagonals are
\* pairwise distinct, each is a sequence of at least 5 playable points spaced
\* by NS+1 or by NS-1, and together they are all the maximal diagonals of
\* length 5 or more.
C18_LinesDerived ==
    (call.op = "calculate_rows_cols_diags" /\ size_of(Grid) >= 5) =>
        LET s == size_of(Grid)
            ns == s + 1
            L == call.ret
        IN /\ L.set
           /\ L.raised = ""
           /\ Len(L.rows) = s
           /\ Len(L.cols) = s
           /\ \A a \in 1 .. s :
                 /\ Len(L.rows[a]) = s
                 /\ Len(L.cols[a]) = s
                 /\ \A k \in 1 .. s : L.rows[a][k] = a * ns + k
                 /\ \A k \in 1 .. s : L.cols[a][k] = k * ns + a
           /\ Len(L.diags) = (2 * (s - 5) + 1) * 2
           /\ \A a, b \in 1 .. Len(L.diags) :
                 a # b => Range(L.diags[a]) # Range(L.diags[b])
           /\ \A a \in 1 .. Len(L.diags) :
                 LET d == L.diags[a]
                 IN /\ Len(d) >= 5
                    /\ \A k \in 1 .. Len(d) : Playable(s, d[k])
                    /\ \E step \in {ns + 1, ns - 1, 0 - (ns + 1), 0 - (ns - 1)} :
                          \A k \in 1 .. (Len(d) - 1) : d[k + 1] - d[k] = step
           /\ {Range(L.diags[a]) : a \in 1 .. Len(L.diags)}
                 = {D \in MaximalDiagonals(s) : Cardinality(D) >= 5}

\* the lines of the largest board
C18_Witness ==
    /\ call.op = "calculate_rows_cols_diags"
    /\ size_of(Grid) = MAXSIZE
    /\ Len(call.ret.rows) = MAXSIZE
    /\ Len(call.ret.diags) = (2 * (MAXSIZE - 5) + 1) * 2
    /\ Len(call.ret.diags[1]) = MAXSIZE

\* the stone of colour c on point m of grid g is one of five consecutive
\* stones of colour c along some stride
FiveThrough(g, m, c) ==
    \E step \in Strides : \E k \in 0 .. 4 :
        /\ m - k * step \in Points
        /\ FiveAt(g, m - k * step, step, c)

\* C19 as stated: when the move played on the trial board before a rollout
\* completes a five-in-a-row for `color`, the first call of the rollout finds
\* it: the trial returns 1 at once and no further stone goes on the trial
\* board.
C19_FiveAtStartWins ==
    [][(/\ pc = "rollout"
        /\ depth = 0
        /\ Grid[legal_moves[i]] = EMPTY
        /\ TempGrid[legal_moves[i]] = color
        /\ FiveThrough(TempGrid, legal_moves[i], color))
       => (/\ detect_five_in_a_row(TempGrid) = color
           /\ win' = 1
           /\ pc' = "trial"
           /\ j' = j + 1
           /\ score'[i][1] = score[i][1] + 1
           /\ temp' = temp
           /\ arrays' = arrays)]_vars

\* C19 amended: the same, for a call of simulation on a board that holds no
\* five-in-a-row.
C19_FiveAtStartWinsWithoutFiveBefore ==
    [][(/\ pc = "rollout"
        /\ depth = 0
        /\ NoFive(Grid)
        /\ Grid[legal_moves[i]] = EMPTY
        /\ TempGrid[legal_moves[i]] = color
        /\ FiveThrough(TempGrid, legal_moves[i], color))
       => (/\ detect_five_in_a_row(TempGrid) = color
           /\ win' = 1
           /\ pc' = "trial"
           /\ j' = j + 1
           /\ score'[i][1] = score[i][1] + 1
           /\ temp' = temp
           /\ arrays' = arrays)]_vars

\* the first trial of a rule_based candidate has returned 1 and the trial
\* board holds the candidate stone, in a five, and no other new stone
C19_Witness ==
    /\ pc = "trial"
    /\ policy = "rule_based"
    /\ j = 1
    /\ win = 1
    /\ NoFive(Grid)
    /\ FiveThrough(TempGrid, legal_moves[i], color)
    /\ \A p \in Points : TempGrid[p] # Grid[p] => p = legal_moves[i]

\* C20: is_legal(p, c) leaves the board it is called on as it was and returns
\* what play_move(p, c) would return on that board: TRUE exactly when p is
\* PASS or the cell p holds EMPTY.
C20_IsLegalPure ==
    [][call'.op = "is_legal" =>
          /\ arrays' = arrays
          /\ board' = board
          /\ call'.ret = play_move(Self, call'.point, call'.color).ret
          /\ call'.ret <=> (call'.point = PASS \/ At(Grid, call'.point) = EMPTY)]_vars

\* is_legal has answered TRUE for an empty point of a board that holds a
\* stone, and the point is still empty
C20_Witness ==
    /\ call.op = "is_legal"
    /\ call.ret = TRUE
    /\ call.point = pt(4, 4)
    /\ Grid[pt(4, 4)] = EMPTY
    /\ Grid[pt(4, 3)] = WHITE
    /\ board.last_move = pt(4, 3)

-----------------------------------------------------------------------------
(* The extended probes, called as BlockOpenFour calls them: on an empty    *)
(* point, with a colour.  The point is the centre of the board, which lies *)
(* on each of the four lines of ProbeLines.                                *)

ProbeStart == pt(4, 4)

CallProbe2(op, ret, c) ==
    /\ pc = "idle"
    /\ call.op = "none"
    /\ Grid[ProbeStart] = EMPTY
    /\ call' = [op |-> op, point |-> ProbeStart, color |-> c, ret |-> ret]
    /\ UNCHANGED <<arrays, board, simvars>>

CallCheckrow2 ==
    \E c \in {BLACK, WHITE} : CallProbe2("checkrow2", checkrow2(Grid, ProbeStart, c), c)
CallCheckcol2 ==
    \E c \in {BLACK, WHITE} : CallProbe2("checkcol2", checkcol2(Grid, ProbeStart, c), c)
CallCheckd12 ==
    \E c \in {BLACK, WHITE} : CallProbe2("checkd12", checkd12(Grid, ProbeStart, c), c)
CallCheckd22 ==
    \E c \in {BLACK, WHITE} : CallProbe2("checkd22", checkd22(Grid, ProbeStart, c), c)

NextProbes ==
    \/ CallCheckrow2
    \/ CallCheckcol2
    \/ CallCheckd12
    \/ CallCheckd22

SpecProbes == InitLines /\ [][NextProbes]_vars

\* the stride of the axis an extended probe walks
StrideOf(op) ==
    IF op = "checkrow2" THEN 1
    ELSE IF op = "checkcol2" THEN NS
    ELSE IF op = "checkd12" THEN NS + 1
    ELSE NS - 1

\* C21: when a stone of the probed colour is next to the start point on the
\* axis, the direction flag of an extended probe is +1 exactly when stones
\* were counted in the + sense only, -1 exactly when in the - sense only, and
\* 0 exactly when in both senses, whatever the number of stones on each side.
C21_DirectionFlag ==
    call.op \in {"checkrow2", "checkcol2", "checkd12", "checkd22"} =>
        LET n1 == RunFrom(Grid, call.point, StrideOf(call.op), call.color)
            n2 == RunFrom(Grid, call.point, 0 - StrideOf(call.op), call.color)
        IN (n1 + n2 > 0) =>
              /\ call.ret.d = 1 <=> (n1 > 0 /\ n2 = 0)
              /\ call.ret.d = 0 - 1 <=> (n1 = 0 /\ n2 > 0)
              /\ call.ret.d = 0 <=> (n1 > 0 /\ n2 > 0)

-----------------------------------------------------------------------------
(* GoBoard(size) followed by calls of reset(size).  Here the GoBoard record *)
(* also holds self.rows, self.cols and self.diags, in the field lines.      *)

\* reset on a dereferenced GoBoard: the object after the call.  The call of
\* calculate_rows_cols_diags that ends it returns at once for a size below 5
\* and leaves self.rows, self.cols and self.diags as they were.
reset(self, size) ==
    [board |-> _initialize_empty_points(size),
     current_player |-> BLACK,
     last_move |-> None,
     last2_move |-> None,
     lines |-> IF size < 5 THEN self.lines ELSE calculate_rows_cols_diags(size)]

\* GoBoard(size): reset, then calculate_rows_cols_diags once more, on an
\* object that has no lines yet
InitReset ==
    /\ \E size \in 2 .. MAXSIZE :
          /\ arrays = [r \in {MainRef} |-> _initialize_empty_points(size)]
          /\ board = [board |-> MainRef, current_player |-> BLACK,
                      last_move |-> None, last2_move |-> None,
                      lines |-> calculate_rows_cols_diags(size)]
    /\ call = NoCall
    /\ SimIdle

\* board.reset(size); np.full makes a new array, the old one is garbage
Reset(size) ==
    LET r == reset(Deref(arrays, board), size)
    IN /\ pc = "idle"
       /\ arrays' = StoreArrays(arrays, board, r)
       /\ board' = StoreObj(board, r)
       /\ call' = [op |-> "reset", point |-> None, color |-> BLACK, ret |-> size]
       /\ UNCHANGED simvars

NextReset == \E size \in 2 .. MAXSIZE : Reset(size)

SpecReset == InitReset /\ [][NextReset]_vars

\* C22: after construction and after any calls of reset, the rows, columns
\* and diagonals the board holds are those of its current size: s rows and s
\* columns, (2*(s-5)+1)*2 diagonals, every point of them a playable point of
\* the current board; for a size below 5 the board holds no lines.
C22_LinesOfCurrentSize ==
    LET s == size_of(Grid)
        L == board.lines
        held == Range(L.rows) \cup Range(L.cols) \cup Range(L.diags)
    IN IF s < 5
       THEN held = {}
       ELSE /\ Len(L.rows) = s
            /\ Len(L.cols) = s
            /\ Len(L.diags) = (2 * (s - 5) + 1) * 2
            /\ \A line \in held : \A k \in 1 .. Len(line) : Playable(s, line[k])
            /\ L.rows = calculate_rows(s)
            /\ L.cols = calculate_cols(s)
            /\ L.diags = calculate_diags(s)

\* C23: over any calls of play_move, a move on a point that succeeds changes
\* exactly one cell, the point, from EMPTY to the colour played; no step
\* changes a cell that holds BLACK or WHITE; and last_move, last2_move are
\* the two most recent moves that succeeded, in order: a move that succeeds
\* shifts last_move to last2_move, a move that fails changes neither.
C23_PureStonePlacement ==
    [][/\ \A p \in Points :
             Grid[p] \in {BLACK, WHITE} => arrays'[board'.board][p] = Grid[p]
       /\ (call'.op = "play_move" /\ call'.ret /\ call'.point # PASS) =>
             /\ call'.point \in Points
             /\ Grid[call'.point] = EMPTY
             /\ arrays'[board'.board][call'.point] = call'.color
             /\ \A q \in Points \ {call'.point} : arrays'[board'.board][q] = Grid[q]
             /\ board'.last_move = call'.point
             /\ board'.last2_move = board.last_move
       /\ (call'.op = "play_move" /\ call'.ret /\ call'.point = PASS) =>
             /\ arrays'[board'.board] = Grid
             /\ board'.last_move = PASS
             /\ board'.last2_move = board.last_move
       /\ (call'.op = "play_move" /\ ~call'.ret) =>
             /\ arrays'[board'.board] = Grid
             /\ board'.last_move = board.last_move
             /\ board'.last2_move = board.last2_move]_vars

\* two stones were placed one after the other and a move on the second was
\* then refused: the stones stand and the two last moves are theirs
C23_Witness ==
    /\ call.op = "play_move"
    /\ call.point = pt(4, 4)
    /\ call.ret = FALSE
    /\ Grid[pt(4, 3)] = BLACK
    /\ Grid[pt(4, 4)] = WHITE
    /\ board.last_move = pt(4, 4)
    /\ board.last2_move = pt(4, 3)

\* C24: BlockOpenFour() reads no cell outside the array: for every empty
\* point i, each index i+-5, i+-5*NS, i+-5*(NS+1), i+-5*(NS-1) that it reads
\* lies in 0 .. maxpoint-1, also when the run of the opponent touches the last
\* row or an edge column; so the call raises nothing.
C24_ReadsInsideArray ==
    call.op = "BlockOpenFour" =>
        /\ call.ret.raised = ""
        /\ \A p \in EmptyPoints :
              \A idx \in Range(block_reads(Grid, p, opponent(board.current_player))) :
                  idx \in 0 .. (maxpoint - 1)

====
